---- MODULE Spec2Model ----
(***************************************************************************)
(* Loan calculator (script.js): calculateLoan with the three repayment-     *)
(* method algorithms, the payoff-time formatter, the form's input          *)
(* validation, and the submit, toggle, download and reset handlers.        *)
(*                                                                         *)
(* Numbers.  The program computes in IEEE doubles; the model computes in   *)
(* fixed point and rounds every product and quotient to the nearest        *)
(* quantum, as a double operation rounds to the nearest double:            *)
(*   - money (principal, payment, interest, balance, extra payment) is an  *)
(*     integer count of 1/Q currency units;                                *)
(*   - periodicRate is the exact fraction num / den;                       *)
(*   - other dimensionless factors (Math.pow(...), the annuity factor)     *)
(*     are integers at scale PS;                                           *)
(*   - annualRate is a whole percentage, years a count of 1/YearsDen       *)
(*     years.                                                              *)
(* Non-finite numbers (NaN, Infinity) are outside the modelled inputs.     *)
(* Strings of the program in Chinese are written in pinyin, because the    *)
(* module is ASCII: "nian" = U+5E74, "geyue" = U+4E2A U+6708,              *)
(* "geliangzhouqi" = U+4E2A U+4E24 U+5468 U+671F, "zhou" = U+5468,         *)
(* "qi" = U+671F, "buzuyigezhouqi" = U+4E0D U+8DB3 U+4E00 U+4E2A U+5468    *)
(* U+671F.                                                                 *)
(***************************************************************************)
EXTENDS Integers, Sequences, FiniteSets, TLC

VARIABLES
  pc,           \* "ready": a call of calculateLoan is about to be made;
                \* "returned": it returned its { schedule, summary } object;
                \* "format" / "formatted": the same for formatPayoffTime
  params,       \* the parameter object of the call
  calculation,  \* what calculateLoan returned
  fmtIn,        \* formatPayoffTime's arguments
  fmtOut,       \* formatPayoffTime's result
  lastSchedule, \* the module variable lastSchedule
  lastSummary,  \* the module variable lastSummary
  page,         \* the document: resultsPanel.hidden, schedulePanel.hidden,
                \* scheduleWrapper's class "expanded", the error messages,
                \* the rows of scheduleBody and the summary texts
  event,        \* the event handled last and, for a submit, the form's data
  download      \* the file the last event made the browser download

uiVars == <<lastSchedule, lastSummary, page, event, download>>

vars == <<pc, params, calculation, fmtIn, fmtOut, lastSchedule, lastSummary,
          page, event, download>>

----------------------------------------------------------------------------
(* Number representation *)

\* Money quanta per currency unit.
Q == 10 ^ 4

\* Scale of dimensionless factors.
PS == 6 * 10 ^ 7

\* years is given in twelfths of a year.
YearsDen == 12

\* The literal 0.01 of the payoff test.
Epsilon == Q \div 100

\* e, once v has been evaluated. TLC evaluates the definitions of a LET and
\* the arguments of an operator only where they are first used, which nests
\* the evaluation of a long computation; Force fixes the order instead.
Force(v, e) == IF v = v THEN e ELSE e

Abs(a) == IF a < 0 THEN -a ELSE a

Sign(a) == IF a < 0 THEN -1 ELSE 1

Max2(a, b) == IF a >= b THEN a ELSE b

Min2(a, b) == IF a <= b THEN a ELSE b

\* <<q, r>> with a * b = q * c + r and 0 <= r < c, for a, b >= 0 and
\* 0 < c <= PS, computed four bits of b at a time so that no intermediate
\* value leaves 32 bits (31 * PS < 2^31).
MulDivQR(a, b, c) ==
  LET aq == a \div c
      ar == a % c
      RECURSIVE Go(_)
      Go(d) ==
        IF d = 0 THEN <<0, 0>>
        ELSE LET h == Go(d \div 16)
                 r16 == 16 * h[2] + (d % 16) * ar
             IN <<16 * h[1] + (d % 16) * aq + r16 \div c, r16 % c>>
  IN Go(b)

\* a * b / c rounded to the nearest integer, for 0 < c <= PS.
MulDiv(a, b, c) ==
  LET qr == MulDivQR(Abs(a), Abs(b), c)
  IN Force(<<a, b, c>>,
           Sign(a) * Sign(b) * (qr[1] + (IF 2 * qr[2] >= c THEN 1 ELSE 0)))

\* a / c rounded to the nearest integer (c > 0).
Div(a, c) ==
  Sign(a) * (Abs(a) \div c + (IF 2 * (Abs(a) % c) >= c THEN 1 ELSE 0))

\* a * b / c rounded to the nearest integer, for a, b >= 0 and c > 0 with
\* b * c inside 32 bits.
MulDivSmall(a, b, c) == (a \div c) * b + Div((a % c) * b, c)

\* Math.round(years * paymentsPerYear): the nearest integer, halves up.
RoundPeriods(years, paymentsPerYear) ==
  (2 * years * paymentsPerYear + YearsDen) \div (2 * YearsDen)

\* x to the power n by repeated squaring, x and the result at scale PS.
RECURSIVE PowFixed(_, _)
PowFixed(x, n) ==
  IF n = 0 THEN PS
  ELSE LET h == PowFixed(x, n \div 2)
           sq == MulDiv(h, h, PS)
       IN Force(h, IF n % 2 = 1 THEN MulDiv(sq, x, PS) ELSE sq)

\* Math.pow(1 + periodicRate, -n), at scale PS.
PowNeg(periodicRate, n) ==
  PowFixed(MulDivSmall(PS, periodicRate.den,
                       periodicRate.den + periodicRate.num), n)

----------------------------------------------------------------------------
(* The repayment methods *)

METHODS ==
  [AMORTIZED |-> "amortized", EQUAL_PRINCIPAL |-> "equal_principal",
   INTEREST_ONLY |-> "interest_only"]

\* annualRate > 0 ? annualRate / 100 / paymentsPerYear : 0
PeriodicRate(annualRate, paymentsPerYear) ==
  IF annualRate > 0 THEN [num |-> annualRate, den |-> 100 * paymentsPerYear]
  ELSE [num |-> 0, den |-> 1]

TotalPeriods(years, paymentsPerYear) ==
  Max2(1, RoundPeriods(years, paymentsPerYear))

MaxIterations(totalPeriods) == totalPeriods * 2 + 10

\* periodicRate === 0 ? 0 : balance * periodicRate
Interest(balance, periodicRate) ==
  IF periodicRate.num = 0 THEN 0
  ELSE MulDivSmall(balance, periodicRate.num, periodicRate.den)

\* The test that ends the loop after a payment: balance <= 0.01.
IsPaidOff(balance) == balance <= Epsilon

\* The loop variables before the first iteration.
LoopStart(principal) ==
  [balance |-> principal, period |-> 0, totalInterest |-> 0, totalPaid |-> 0,
   schedule |-> <<>>]

\* The condition of the three while loops. A loop that left by its break has
\* set balance = 0, so the condition is false from then on.
LoopContinues(st, maxIterations) ==
  st.balance > 0 /\ st.period < maxIterations

\* Variant of FormatPayoffTime: the years are counted in twelve periods
\* whatever the frequency.
FormatPayoffTimeMonthly(periods, paymentsPerYear) ==
  LET years == periods \div 12
      remainder == periods % paymentsPerYear
      periodLabel == CASE paymentsPerYear = 12 -> "yue"
                       [] paymentsPerYear = 26 -> "liangzhou"
                       [] paymentsPerYear = 52 -> "zhou"
                       [] OTHER -> "qi"
      yearPart == IF years > 0 THEN ToString(years) \o "nian" ELSE ""
      remainderPart ==
        IF remainder > 0
        THEN CASE paymentsPerYear = 12 -> ToString(remainder) \o "geyue"
               [] paymentsPerYear = 26 -> ToString(remainder) \o "geliangzhouqi"
               [] paymentsPerYear = 52 -> ToString(remainder) \o "zhou"
               [] OTHER -> ToString(remainder) \o periodLabel
        ELSE ""
  IN IF years = 0 /\ remainder = 0 THEN "buzuyigezhouqi"
     ELSE yearPart \o remainderPart

\* formatPayoffTime
FormatPayoffTime(periods, paymentsPerYear) ==
  LET years == periods \div paymentsPerYear
      remainder == periods % paymentsPerYear
      periodLabel == CASE paymentsPerYear = 12 -> "yue"
                       [] paymentsPerYear = 26 -> "liangzhou"
                       [] paymentsPerYear = 52 -> "zhou"
                       [] OTHER -> "qi"
      yearPart == IF years > 0 THEN ToString(years) \o "nian" ELSE ""
      remainderPart ==
        IF remainder > 0
        THEN CASE paymentsPerYear = 12 -> ToString(remainder) \o "geyue"
               [] paymentsPerYear = 26 -> ToString(remainder) \o "geliangzhouqi"
               [] paymentsPerYear = 52 -> ToString(remainder) \o "zhou"
               [] OTHER -> ToString(remainder) \o periodLabel
        ELSE ""
  IN IF years = 0 /\ remainder = 0 THEN "buzuyigezhouqi"
     ELSE yearPart \o remainderPart

(* calculateAmortizedLoan *)

\* periodicRate === 0 ? principal / totalPeriods
\*   : (principal * periodicRate) / (1 - Math.pow(1 + periodicRate, -totalPeriods))
\* The quotient periodicRate / (1 - pow) is taken first, at scale PS, and the
\* principal multiplied in last, which keeps every value inside 32 bits.
BasePayment(principal, periodicRate, totalPeriods) ==
  IF periodicRate.num = 0 THEN Div(principal, totalPeriods)
  ELSE LET rate == MulDivSmall(PS, periodicRate.num, periodicRate.den)
           factor == MulDiv(rate, PS, PS - PowNeg(periodicRate, totalPeriods))
       IN Force(factor, MulDiv(principal, factor, PS))

\* Variant of PaymentWithExtra: the extra payment is left out.
PaymentWithoutExtra(basePayment, extraPayment) == basePayment

\* basePayment + extraPayment
PaymentWithExtra(basePayment, extraPayment) == basePayment + extraPayment

\* Variant of AmortizedStep: totalPaid grows by the nominal payment instead
\* of the payment actually made.
AmortizedStepGrossTotal(st, periodicRate, paymentWithExtra) ==
  LET period == st.period + 1
      interest == Interest(st.balance, periodicRate)
      payment0 == Min2(paymentWithExtra, st.balance + interest)
      capped == payment0 - interest > st.balance
      principalPaid == IF capped THEN st.balance ELSE payment0 - interest
      payment == IF capped THEN principalPaid + interest ELSE payment0
      balance == Max2(0, st.balance - principalPaid)
  IN [balance |-> balance, period |-> period,
      totalInterest |-> st.totalInterest + interest,
      totalPaid |-> st.totalPaid + paymentWithExtra,
      schedule |-> Append(st.schedule,
                          [period |-> period, payment |-> payment,
                           principal |-> principalPaid, interest |-> interest,
                           balance |-> balance])]

\* Variant of AmortizedStep: the entry records the nominal payment instead of
\* the payment actually made.
AmortizedStepNominalPayment(st, periodicRate, paymentWithExtra) ==
  LET period == st.period + 1
      interest == Interest(st.balance, periodicRate)
      payment0 == Min2(paymentWithExtra, st.balance + interest)
      capped == payment0 - interest > st.balance
      principalPaid == IF capped THEN st.balance ELSE payment0 - interest
      payment == IF capped THEN principalPaid + interest ELSE payment0
      balance == Max2(0, st.balance - principalPaid)
  IN [balance |-> balance, period |-> period,
      totalInterest |-> st.totalInterest + interest,
      totalPaid |-> st.totalPaid + payment,
      schedule |-> Append(st.schedule,
                          [period |-> period, payment |-> paymentWithExtra,
                           principal |-> principalPaid, interest |-> interest,
                           balance |-> balance])]

\* One iteration of the amortized loop, up to schedule.push.
AmortizedStep(st, periodicRate, paymentWithExtra) ==
  LET period == st.period + 1
      interest == Interest(st.balance, periodicRate)
      payment0 == Min2(paymentWithExtra, st.balance + interest)
      capped == payment0 - interest > st.balance
      principalPaid == IF capped THEN st.balance ELSE payment0 - interest
      payment == IF capped THEN principalPaid + interest ELSE payment0
      balance == Max2(0, st.balance - principalPaid)
  IN [balance |-> balance, period |-> period,
      totalInterest |-> st.totalInterest + interest,
      totalPaid |-> st.totalPaid + payment,
      schedule |-> Append(st.schedule,
                          [period |-> period, payment |-> payment,
                           principal |-> principalPaid, interest |-> interest,
                           balance |-> balance])]

\* The loop condition, one iteration and the payoff test with its break.
AmortizedIteration(st, periodicRate, paymentWithExtra, maxIterations) ==
  IF ~LoopContinues(st, maxIterations) THEN st
  ELSE LET nx == AmortizedStep(st, periodicRate, paymentWithExtra)
       IN IF IsPaidOff(nx.balance) THEN [nx EXCEPT !.balance = 0] ELSE nx

\* The while loop: k times the condition and, while it holds, the body. The
\* condition bounds the iterations by maxIterations, so k = maxIterations
\* runs the loop to its end.
RECURSIVE AmortizedLoop(_, _, _, _, _)
AmortizedLoop(st, periodicRate, paymentWithExtra, maxIterations, k) ==
  IF k <= 0 THEN st
  ELSE IF k = 1
  THEN AmortizedIteration(st, periodicRate, paymentWithExtra, maxIterations)
  ELSE LET half == AmortizedLoop(st, periodicRate, paymentWithExtra,
                                 maxIterations, k \div 2)
       IN Force(half, AmortizedLoop(half, periodicRate, paymentWithExtra,
                                    maxIterations, k - k \div 2))

CalculateAmortizedLoan(p) ==
  LET periodicRate == PeriodicRate(p.annualRate, p.paymentsPerYear)
      totalPeriods == TotalPeriods(p.years, p.paymentsPerYear)
      basePayment == BasePayment(p.principal, periodicRate, totalPeriods)
      paymentWithExtra == PaymentWithExtra(basePayment, p.extraPayment)
      maxIterations == MaxIterations(totalPeriods)
      end == AmortizedLoop(LoopStart(p.principal), periodicRate,
                           paymentWithExtra, maxIterations, maxIterations)
  IN Force(paymentWithExtra,
     [schedule |-> end.schedule,
      summary |->
        [paymentInfo |-> [type |-> METHODS.AMORTIZED,
                          paymentPerPeriod |-> paymentWithExtra,
                          basePayment |-> basePayment,
                          extraPayment |-> p.extraPayment],
         totalPaid |-> end.totalPaid,
         totalInterest |-> end.totalInterest,
         payoffLabel |-> FormatPayoffTime(end.period, p.paymentsPerYear)]])

(* calculateEqualPrincipalLoan *)

\* Variant of EqualPrincipalStep: the payment also carries the interest of
\* the periods before it.
EqualPrincipalStepCarry(st, periodicRate, basePrincipalPerPeriod, extraPayment) ==
  LET period == st.period + 1
      interest == Interest(st.balance, periodicRate)
      principalPayment ==
        IF basePrincipalPerPeriod + extraPayment > st.balance THEN st.balance
        ELSE basePrincipalPerPeriod + extraPayment
      payment == principalPayment + interest + st.totalInterest
      balance == Max2(0, st.balance - principalPayment)
  IN [balance |-> balance, period |-> period,
      totalInterest |-> st.totalInterest + interest,
      totalPaid |-> st.totalPaid + payment,
      schedule |-> Append(st.schedule,
                          [period |-> period, payment |-> payment,
                           principal |-> principalPayment,
                           interest |-> interest, balance |-> balance])]

\* One iteration of the equal-principal loop, up to schedule.push.
EqualPrincipalStep(st, periodicRate, basePrincipalPerPeriod, extraPayment) ==
  LET period == st.period + 1
      interest == Interest(st.balance, periodicRate)
      principalPayment ==
        IF basePrincipalPerPeriod + extraPayment > st.balance THEN st.balance
        ELSE basePrincipalPerPeriod + extraPayment
      payment == principalPayment + interest
      balance == Max2(0, st.balance - principalPayment)
  IN [balance |-> balance, period |-> period,
      totalInterest |-> st.totalInterest + interest,
      totalPaid |-> st.totalPaid + payment,
      schedule |-> Append(st.schedule,
                          [period |-> period, payment |-> payment,
                           principal |-> principalPayment,
                           interest |-> interest, balance |-> balance])]

EqualPrincipalIteration(st, periodicRate, basePrincipalPerPeriod, extraPayment, maxIterations) ==
  IF ~LoopContinues(st, maxIterations) THEN st
  ELSE LET nx == EqualPrincipalStep(st, periodicRate, basePrincipalPerPeriod,
                                    extraPayment)
       IN IF IsPaidOff(nx.balance) THEN [nx EXCEPT !.balance = 0] ELSE nx

RECURSIVE EqualPrincipalLoop(_, _, _, _, _, _)
EqualPrincipalLoop(st, periodicRate, basePrincipalPerPeriod, extraPayment, maxIterations, k) ==
  IF k <= 0 THEN st
  ELSE IF k = 1
  THEN EqualPrincipalIteration(st, periodicRate, basePrincipalPerPeriod,
                               extraPayment, maxIterations)
  ELSE LET half == EqualPrincipalLoop(st, periodicRate,
                                      basePrincipalPerPeriod, extraPayment,
                                      maxIterations, k \div 2)
       IN Force(half,
                EqualPrincipalLoop(half, periodicRate, basePrincipalPerPeriod,
                                   extraPayment, maxIterations, k - k \div 2))

\* schedule[0]?.payment ?? 0
FirstPayment(schedule) ==
  IF Len(schedule) = 0 THEN 0 ELSE schedule[1].payment

\* schedule[schedule.length - 1]?.payment ?? 0
LastPayment(schedule) ==
  IF Len(schedule) = 0 THEN 0 ELSE schedule[Len(schedule)].payment

CalculateEqualPrincipalLoan(p) ==
  LET periodicRate == PeriodicRate(p.annualRate, p.paymentsPerYear)
      totalPeriods == TotalPeriods(p.years, p.paymentsPerYear)
      basePrincipalPerPeriod == Div(p.principal, totalPeriods)
      maxIterations == MaxIterations(totalPeriods)
      end == EqualPrincipalLoop(LoopStart(p.principal), periodicRate,
                                basePrincipalPerPeriod, p.extraPayment,
                                maxIterations, maxIterations)
  IN [schedule |-> end.schedule,
      summary |->
        [paymentInfo |-> [type |-> METHODS.EQUAL_PRINCIPAL,
                          firstPayment |-> FirstPayment(end.schedule),
                          lastPayment |-> LastPayment(end.schedule),
                          extraPayment |-> p.extraPayment],
         totalPaid |-> end.totalPaid,
         totalInterest |-> end.totalInterest,
         payoffLabel |-> FormatPayoffTime(end.period, p.paymentsPerYear)]]

(* calculateInterestOnlyLoan *)

\* Variant of IsEndOfYear: a year of twelve periods whatever the frequency.
IsEndOfYearMonthly(period, paymentsPerYear) == period % 12 = 0

\* period % paymentsPerYear === 0
IsEndOfYear(period, paymentsPerYear) == period % paymentsPerYear = 0

\* principal / annualRepaymentCount
PlannedAnnualPrincipal(principal, totalPeriods, paymentsPerYear) ==
  LET fullYears == totalPeriods \div paymentsPerYear
      remainderPeriods == totalPeriods % paymentsPerYear
      annualRepaymentCount ==
        Max2(1, fullYears + (IF remainderPeriods > 0 THEN 1 ELSE 0))
  IN Div(principal, annualRepaymentCount)

\* One iteration of the interest-only loop, up to schedule.push.
InterestOnlyStep(st, periodicRate, totalPeriods, paymentsPerYear, plannedAnnualPrincipal, extraPayment) ==
  LET period == st.period + 1
      interest == Interest(st.balance, periodicRate)
      isEndOfYear == IsEndOfYear(period, paymentsPerYear)
      isFinalPeriod == period = totalPeriods
      scheduled == IF isEndOfYear \/ isFinalPeriod
                   THEN Min2(plannedAnnualPrincipal, st.balance) ELSE 0
      principalPaid ==
        IF extraPayment > 0 /\ st.balance - scheduled > 0
        THEN scheduled + Min2(extraPayment, st.balance - scheduled)
        ELSE scheduled
      payment == interest + principalPaid
      balance == Max2(0, st.balance - principalPaid)
  IN [balance |-> balance, period |-> period,
      totalInterest |-> st.totalInterest + interest,
      totalPaid |-> st.totalPaid + payment,
      schedule |-> Append(st.schedule,
                          [period |-> period, payment |-> payment,
                           principal |-> principalPaid, interest |-> interest,
                           balance |-> balance])]

InterestOnlyIteration(st, periodicRate, totalPeriods, paymentsPerYear, plannedAnnualPrincipal, extraPayment, maxIterations) ==
  IF ~LoopContinues(st, maxIterations) THEN st
  ELSE LET nx == InterestOnlyStep(st, periodicRate, totalPeriods,
                                  paymentsPerYear, plannedAnnualPrincipal,
                                  extraPayment)
       IN IF IsPaidOff(nx.balance) THEN [nx EXCEPT !.balance = 0] ELSE nx

RECURSIVE InterestOnlyLoop(_, _, _, _, _, _, _, _)
InterestOnlyLoop(st, periodicRate, totalPeriods, paymentsPerYear, plannedAnnualPrincipal, extraPayment, maxIterations, k) ==
  IF k <= 0 THEN st
  ELSE IF k = 1
  THEN InterestOnlyIteration(st, periodicRate, totalPeriods, paymentsPerYear,
                             plannedAnnualPrincipal, extraPayment,
                             maxIterations)
  ELSE LET half == InterestOnlyLoop(st, periodicRate, totalPeriods,
                                    paymentsPerYear, plannedAnnualPrincipal,
                                    extraPayment, maxIterations, k \div 2)
       IN Force(half,
                InterestOnlyLoop(half, periodicRate, totalPeriods,
                                 paymentsPerYear, plannedAnnualPrincipal,
                                 extraPayment, maxIterations, k - k \div 2))

CalculateInterestOnlyLoan(p) ==
  LET periodicRate == PeriodicRate(p.annualRate, p.paymentsPerYear)
      totalPeriods == TotalPeriods(p.years, p.paymentsPerYear)
      plannedAnnualPrincipal ==
        PlannedAnnualPrincipal(p.principal, totalPeriods, p.paymentsPerYear)
      maxIterations == MaxIterations(totalPeriods)
      end == InterestOnlyLoop(LoopStart(p.principal), periodicRate,
                              totalPeriods, p.paymentsPerYear,
                              plannedAnnualPrincipal, p.extraPayment,
                              maxIterations, maxIterations)
  IN [schedule |-> end.schedule,
      summary |->
        [paymentInfo |-> [type |-> METHODS.INTEREST_ONLY,
                          firstPayment |-> FirstPayment(end.schedule),
                          lastPayment |-> LastPayment(end.schedule),
                          extraPayment |-> p.extraPayment],
         totalPaid |-> end.totalPaid,
         totalInterest |-> end.totalInterest,
         payoffLabel |-> FormatPayoffTime(end.period, p.paymentsPerYear)]]

\* calculateLoan: the dispatch on params.method.
CalculateLoanResult(p) ==
  IF p.method = METHODS.EQUAL_PRINCIPAL THEN CalculateEqualPrincipalLoan(p)
  ELSE IF p.method = METHODS.INTEREST_ONLY THEN CalculateInterestOnlyLoan(p)
  ELSE CalculateAmortizedLoan(p)

----------------------------------------------------------------------------
(* Inputs *)

\* The longest term of the input grid, in twelfths of a year.
MaxTerm == 15

\* The largest period count given to formatPayoffTime.
MaxPeriods == 110

Frequencies == {12, 26, 52}

\* 0.005, 10, 12.3456 and 100 currency units.
Principals == {50, 10 * Q, 123456, 100 * Q}

Rates == {0, 5, 100}

\* 0, 4.995 and 25 currency units.
Extras == {0, 49950, 25 * Q}

Params(method, principal, annualRate, years, paymentsPerYear, extraPayment) ==
  [method |-> method, principal |-> principal, annualRate |-> annualRate,
   years |-> years, paymentsPerYear |-> paymentsPerYear,
   extraPayment |-> extraPayment]

MethodValues == {METHODS.AMORTIZED, METHODS.EQUAL_PRINCIPAL, METHODS.INTEREST_ONLY}

GridParams ==
  {Params(m, pr, r, y, f, e) :
     m \in MethodValues, pr \in Principals, r \in Rates, y \in 1..MaxTerm,
     f \in Frequencies, e \in Extras}

\* Amortized, 100000 at 5% over one year, monthly, with 5000 extra.
ExtraScenario == Params(METHODS.AMORTIZED, 100000 * Q, 5, 12, 12, 5000 * Q)

\* Amortized, 1000 at 100% over forty years, monthly, no extra payment:
\* (1 + periodicRate)^480 is above 2^54, so Math.pow(1 + periodicRate, -480)
\* is below half the spacing of the doubles under 1 and
\* 1 - Math.pow(...) is exactly 1, in the doubles as at scale PS.
LongTermScenario == Params(METHODS.AMORTIZED, 1000 * Q, 100, 480, 12, 0)

\* The scenarios above, and terms of two and a half and of three years.
ScenarioParams ==
  {ExtraScenario, LongTermScenario}
  \cup {Params(m, 100 * Q, r, y, 12, 0) :
          m \in MethodValues, r \in {0, 5}, y \in {30, 36}}

\* validateInputs({ principal, rate, years, extra, method }): the keys of the
\* errors object. Every modelled number is finite. paymentsPerYear is not
\* among the function's parameters.
ValidateInputs(p) ==
  (IF p.principal <= 0 THEN {"amount"} ELSE {})
  \cup (IF p.annualRate < 0 \/ p.annualRate > 100 THEN {"rate"} ELSE {})
  \cup (IF p.years <= 0 THEN {"years"} ELSE {})
  \cup (IF p.extraPayment < 0 THEN {"extra"} ELSE {})
  \cup (IF p.method \notin MethodValues THEN {"method"} ELSE {})

\* The input contract: principal > 0, 0 <= annualRate <= 100, years > 0,
\* extraPayment >= 0, paymentsPerYear in {12, 26, 52}, a defined method.
IsValid(p) ==
  /\ p.method \in MethodValues
  /\ p.principal > 0
  /\ p.annualRate >= 0 /\ p.annualRate <= 100
  /\ p.years > 0
  /\ p.extraPayment >= 0
  /\ p.paymentsPerYear \in Frequencies

ValidParams == GridParams \cup ScenarioParams

\* Parameter objects with one field outside its domain.
InvalidParams ==
  LET base == {Params(m, 100 * Q, r, 12, 12, e) :
                 m \in MethodValues, r \in {5, 50}, e \in {0, 25 * Q}}
  IN UNION {
       {[b EXCEPT !.method = x] : x \in {"", "bogus"}}
       \cup {[b EXCEPT !.principal = x] : x \in {0, -100 * Q}}
       \cup {[b EXCEPT !.annualRate = x] : x \in {-1, 101}}
       \cup {[b EXCEPT !.years = x] : x \in {0, -12}}
       \cup {[b EXCEPT !.extraPayment = x] : x \in {-1 * Q, -20 * Q}}
       \cup {[b EXCEPT !.paymentsPerYear = x] : x \in {4, 6}}
       : b \in base}

NoCalculation == [schedule |-> <<>>, summary |-> [payoffLabel |-> ""]]

NoParams == Params("", 0, 0, 0, 0, 0)

NoFmt == [periods |-> 0, paymentsPerYear |-> 0]

\* let lastSummary = null
NoSummary == [payoffLabel |-> ""]

NoFile == [name |-> "", header |-> <<>>, rows |-> <<>>]

NoEvent == [type |-> "none"]

\* The texts of the summary elements before the first updateSummary.
NoSummaryText == [payoffTime |-> ""]

\* A page on which no handler of the form runs.
NoPage ==
  /\ lastSchedule = <<>>
  /\ lastSummary = NoSummary
  /\ page = [resultsHidden |-> TRUE, scheduleHidden |-> TRUE,
             expanded |-> FALSE, errors |-> {}, scheduleBody |-> <<>>,
             summaryText |-> NoSummaryText]
  /\ event = NoEvent
  /\ download = NoFile

----------------------------------------------------------------------------
(* The engine: one call of calculateLoan *)

Init ==
  /\ pc = "ready"
  /\ params \in ValidParams \cup InvalidParams
  /\ calculation = NoCalculation
  /\ fmtIn = NoFmt
  /\ fmtOut = ""
  /\ NoPage

\* calculateLoan(params): runs to completion and returns { schedule, summary };
\* the function has no other exit.
CalculateLoan ==
  /\ pc = "ready"
  /\ calculation' = CalculateLoanResult(params)
  /\ pc' = "returned"
  /\ UNCHANGED <<params, fmtIn, fmtOut>>
  /\ UNCHANGED uiVars

Next == CalculateLoan

Spec == Init /\ [][Next]_vars

(* The formatter: one call of formatPayoffTime *)

InitFormat ==
  /\ pc = "format"
  /\ params = NoParams
  /\ calculation = NoCalculation
  /\ fmtIn \in [periods : 0..MaxPeriods, paymentsPerYear : Frequencies]
  /\ fmtOut = ""
  /\ NoPage

FormatCall ==
  /\ pc = "format"
  /\ fmtOut' = FormatPayoffTime(fmtIn.periods, fmtIn.paymentsPerYear)
  /\ pc' = "formatted"
  /\ UNCHANGED <<params, calculation, fmtIn>>
  /\ UNCHANGED uiVars

NextFormat == FormatCall

SpecFormat == InitFormat /\ [][NextFormat]_vars

----------------------------------------------------------------------------
(* The page: the submit, toggle, download and reset handlers *)

\* A form holds the values the handler parses out of the FormData. A blank
\* method field is "", a blank extra field has extraGiven = FALSE.
Form(method, amount, rate, years, frequency, extraGiven, extra) ==
  [method |-> method, amount |-> amount, rate |-> rate, years |-> years,
   frequency |-> frequency, extraGiven |-> extraGiven, extra |-> extra]

\* Lines 45-55 of the submit handler: the parsed fields. A blank method
\* becomes METHODS.AMORTIZED and parseFloat("") || 0 is 0.
ParseForm(form) ==
  Params(IF form.method = "" THEN METHODS.AMORTIZED ELSE form.method,
         form.amount, form.rate, form.years, form.frequency,
         IF form.extraGiven THEN form.extra ELSE 0)

\* Intl.NumberFormat with two fraction digits: the amount in hundredths,
\* rounded to the nearest.
FormatNumber(value) == Div(value, Q \div 100)

\* formatterCurrency.format(value)
FormatCurrency(value) == [currency |-> "CNY", amount |-> FormatNumber(value)]

\* The payment text of updateSummary: its shape and the amounts in it.
PaymentText(paymentInfo) ==
  IF paymentInfo.type = METHODS.AMORTIZED
  THEN IF paymentInfo.extraPayment > Epsilon
       THEN [shape |-> "total_base_extra",
             first |-> FormatCurrency(paymentInfo.paymentPerPeriod),
             second |-> FormatCurrency(paymentInfo.basePayment),
             withExtra |-> TRUE,
             extra |-> FormatCurrency(paymentInfo.extraPayment)]
       ELSE [shape |-> "single",
             first |-> FormatCurrency(paymentInfo.paymentPerPeriod),
             second |-> FormatCurrency(0),
             withExtra |-> FALSE, extra |-> FormatCurrency(0)]
  ELSE LET single ==
             Abs(paymentInfo.firstPayment - paymentInfo.lastPayment) < Epsilon
           withExtra == paymentInfo.extraPayment > Epsilon
       IN [shape |-> IF single THEN "single" ELSE "range",
           first |-> FormatCurrency(paymentInfo.firstPayment),
           second |-> IF single THEN FormatCurrency(0)
                      ELSE FormatCurrency(paymentInfo.lastPayment),
           withExtra |-> withExtra,
           extra |-> IF withExtra THEN FormatCurrency(paymentInfo.extraPayment)
                     ELSE FormatCurrency(0)]

\* updateSummary: the texts of the four summary elements.
SummaryText(summary) ==
  [paymentAmount |-> PaymentText(summary.paymentInfo),
   totalPaid |-> FormatCurrency(summary.totalPaid),
   totalInterest |-> FormatCurrency(summary.totalInterest),
   payoffTime |-> summary.payoffLabel]

\* renderSchedule: one table row per entry.
RenderSchedule(schedule) ==
  [i \in 1..Len(schedule) |->
     [period |-> schedule[i].period,
      payment |-> FormatCurrency(schedule[i].payment),
      principal |-> FormatCurrency(schedule[i].principal),
      interest |-> FormatCurrency(schedule[i].interest),
      balance |-> FormatCurrency(schedule[i].balance)]]

\* The header of the CSV file: "qishu" = U+671F U+6570, "dangqihuankuan" =
\* U+5F53 U+671F U+8FD8 U+6B3E, "benjin" = U+672C U+91D1, "lixi" = U+5229
\* U+606F, "shengyubenjin" = U+5269 U+4F59 U+672C U+91D1.
CsvHeader == <<"qishu", "dangqihuankuan", "benjin", "lixi", "shengyubenjin">>

\* lastSchedule.map(...): the rows of the CSV file.
CsvRows(schedule) ==
  [i \in 1..Len(schedule) |->
     [period |-> schedule[i].period,
      payment |-> FormatNumber(schedule[i].payment),
      principal |-> FormatNumber(schedule[i].principal),
      interest |-> FormatNumber(schedule[i].interest),
      balance |-> FormatNumber(schedule[i].balance)]]

\* new Date().toISOString().split("T")[0] on the days the page is used.
Dates == {"2026-01-01", "2026-01-02"}

\* The forms submitted: three that pass validateInputs, with terms of two and
\* three months, the second one leaving 0.005 after its only payment; and
\* four that do not pass.
UIForms ==
  {Form("", 10 * Q, 5, 2, 12, FALSE, 0),
   Form(METHODS.EQUAL_PRINCIPAL, 10 * Q, 0, 2, 12, TRUE, 49950),
   Form(METHODS.INTEREST_ONLY, 100 * Q, 5, 3, 26, TRUE, 0),
   Form(METHODS.AMORTIZED, 0, 5, 2, 12, FALSE, 0),
   Form(METHODS.AMORTIZED, 10 * Q, 101, 0, 12, FALSE, 0),
   Form("bogus", 10 * Q, 5, 2, 12, TRUE, 0),
   Form(METHODS.EQUAL_PRINCIPAL, 10 * Q, 5, 2, 12, TRUE, -1 * Q)}

\* The page after script.js has run. The panels and the wrapper are as the
\* page's markup has them, which the script does not set.
InitUI ==
  /\ pc = "page"
  /\ params = NoParams
  /\ calculation = NoCalculation
  /\ fmtIn = NoFmt
  /\ fmtOut = ""
  /\ lastSchedule = <<>>
  /\ lastSummary = NoSummary
  /\ page \in [resultsHidden : BOOLEAN, scheduleHidden : BOOLEAN,
               expanded : BOOLEAN, errors : {{}}, scheduleBody : {<<>>},
               summaryText : {NoSummaryText}]
  /\ event = NoEvent
  /\ download = NoFile

\* The submit handler. params and calculation are the argument and the result
\* of its call of calculateLoan.
Submit ==
  /\ pc = "page"
  /\ \E form \in UIForms :
       LET p == ParseForm(form)
           errors == ValidateInputs(p)
       IN /\ event' = [type |-> "submit", form |-> form]
          /\ IF errors # {}
             THEN /\ page' = [page EXCEPT !.errors = errors,
                                          !.resultsHidden = TRUE,
                                          !.scheduleHidden = TRUE]
                  /\ UNCHANGED <<params, calculation, lastSchedule,
                                 lastSummary>>
             ELSE LET c == CalculateLoanResult(p)
                  IN /\ params' = p
                     /\ calculation' = c
                     /\ lastSchedule' = c.schedule
                     /\ lastSummary' = c.summary
                     /\ page' = [resultsHidden |-> FALSE,
                                 scheduleHidden |-> Len(c.schedule) = 0,
                                 expanded |-> FALSE,
                                 errors |-> {},
                                 scheduleBody |-> RenderSchedule(c.schedule),
                                 summaryText |-> SummaryText(c.summary)]
  /\ download' = NoFile
  /\ UNCHANGED <<pc, fmtIn, fmtOut>>

\* The click handler of toggleScheduleBtn.
Toggle ==
  /\ pc = "page"
  /\ page' = IF ~page.scheduleHidden
             THEN [page EXCEPT !.expanded = ~page.expanded]
             ELSE page
  /\ event' = [type |-> "toggle"]
  /\ download' = NoFile
  /\ UNCHANGED <<pc, params, calculation, fmtIn, fmtOut, lastSchedule,
                 lastSummary>>

\* The click handler of downloadCsvBtn.
Download ==
  /\ pc = "page"
  /\ \E date \in Dates :
       download' = IF Len(lastSchedule) = 0 THEN NoFile
                   ELSE [name |-> "loan_schedule_" \o date \o ".csv",
                         header |-> CsvHeader,
                         rows |-> CsvRows(lastSchedule)]
  /\ event' = [type |-> "download"]
  /\ UNCHANGED <<pc, params, calculation, fmtIn, fmtOut, lastSchedule,
                 lastSummary, page>>

\* Variant of Reset: lastSchedule and lastSummary are left as they are.
ResetKeepsCache ==
  /\ pc = "page"
  /\ page' = [page EXCEPT !.resultsHidden = TRUE, !.scheduleHidden = TRUE,
                          !.expanded = FALSE, !.scheduleBody = <<>>,
                          !.errors = {}]
  /\ event' = [type |-> "reset"]
  /\ download' = NoFile
  /\ UNCHANGED <<pc, params, calculation, fmtIn, fmtOut, lastSchedule,
                 lastSummary>>

\* The click handler of resetBtn.
Reset ==
  /\ pc = "page"
  /\ page' = [page EXCEPT !.resultsHidden = TRUE, !.scheduleHidden = TRUE,
                          !.expanded = FALSE, !.scheduleBody = <<>>,
                          !.errors = {}]
  /\ lastSchedule' = <<>>
  /\ lastSummary' = NoSummary
  /\ event' = [type |-> "reset"]
  /\ download' = NoFile
  /\ UNCHANGED <<pc, params, calculation, fmtIn, fmtOut>>

NextUI == Submit \/ Toggle \/ Download \/ Reset

SpecUI == InitUI /\ [][NextUI]_vars

----------------------------------------------------------------------------
(* Properties of calculateLoan *)

Returned == pc = "returned"

\* The sum of field f over entries lo..hi of schedule s.
RECURSIVE SumField(_, _, _, _)
SumField(s, f, lo, hi) ==
  IF lo > hi THEN 0
  ELSE IF lo = hi THEN s[lo][f]
  ELSE LET mid == (lo + hi) \div 2
           left == SumField(s, f, lo, mid)
       IN Force(left, left + SumField(s, f, mid + 1, hi))

SumPrincipal(s) == SumField(s, "principal", 1, Len(s))

LastBalance(s) == s[Len(s)].balance

\* C1: for every valid input and each method the returned schedule is
\* non-empty, the balance of successive entries never increases, and the
\* balance recorded in the last entry is exactly 0.
C1_ScheduleEndsAtZero ==
  (Returned /\ IsValid(params)) =>
    LET s == calculation.schedule
    IN /\ Len(s) > 0
       /\ \A i \in 2..Len(s) : s[i].balance <= s[i - 1].balance
       /\ LastBalance(s) = 0

\* C2: for every valid input and each method the principal portions of the
\* schedule add up to the input principal within 0.01.
C2_PrincipalRepaid ==
  (Returned /\ IsValid(params)) =>
    Abs(SumPrincipal(calculation.schedule) - params.principal) <= Epsilon

\* C3: for every valid input and each method totalPaid equals totalInterest
\* plus the sum of the principal portions (within 0.01), every entry has
\* payment = principal + interest, and totalInterest is the sum of the
\* entries' interest.
C3_TotalsAgree ==
  (Returned /\ IsValid(params)) =>
    LET s == calculation.schedule
        sm == calculation.summary
    IN /\ Abs(sm.totalPaid - (sm.totalInterest + SumPrincipal(s))) <= Epsilon
       /\ \A i \in 1..Len(s) : s[i].payment = s[i].principal + s[i].interest
       /\ sm.totalInterest = SumField(s, "interest", 1, Len(s))
       /\ sm.totalPaid = SumField(s, "payment", 1, Len(s))

\* A valid call returned several entries, one of them with its payment capped
\* below the payment before it, and interest was charged.
C3_Witness ==
  /\ Returned /\ IsValid(params)
  /\ calculation.summary.totalInterest > 0
  /\ LET s == calculation.schedule
     IN Len(s) > 2 /\ s[Len(s)].payment < s[Len(s) - 1].payment

\* The loop ended on the iteration cap: maxIterations entries were emitted
\* and the last one left more than 0.01 unpaid.
CappedUnpaid ==
  LET s == calculation.schedule
  IN /\ Len(s) > 0
     /\ Len(s) = MaxIterations(TotalPeriods(params.years,
                                            params.paymentsPerYear))
     /\ LastBalance(s) > Epsilon

\* C4: a loop that stops on the iteration cap with the balance still positive
\* is never returned as an ordinary result.
C4_NoCappedUnpaidResult == Returned => ~CappedUnpaid

\* C5: a call with a parameter outside the input contract does not return a
\* schedule and summary.
C5_InvalidInputRejected == Returned => IsValid(params)

\* The balance before entry i of schedule s of a loan of the given principal.
BalanceBefore(s, i, principal) == IF i = 1 THEN principal ELSE s[i - 1].balance

\* C6: interest-only with extraPayment = 0, valid input: an entry whose
\* period is neither a multiple of paymentsPerYear nor equal to totalPeriods
\* has principal portion 0, payment equal to its interest, and leaves the
\* balance unchanged.
C6_InterestOnlyBetweenYearEnds ==
  (Returned /\ IsValid(params) /\ params.method = METHODS.INTEREST_ONLY
     /\ params.extraPayment = 0) =>
    LET s == calculation.schedule
        totalPeriods == TotalPeriods(params.years, params.paymentsPerYear)
    IN \A i \in 1..Len(s) :
         (s[i].period % params.paymentsPerYear # 0
            /\ s[i].period # totalPeriods) =>
           /\ s[i].principal = 0
           /\ s[i].payment = s[i].interest
           /\ s[i].balance = BalanceBefore(s, i, params.principal)

\* An interest-only schedule without extra payment that runs past a year end:
\* principal is repaid at the year end, and entries before and after it repay
\* none.
C6_Witness ==
  /\ Returned /\ IsValid(params) /\ params.method = METHODS.INTEREST_ONLY
  /\ params.extraPayment = 0
  /\ LET s == calculation.schedule
         f == params.paymentsPerYear
     IN /\ Len(s) > f + 1
        /\ s[f].principal > 0
        /\ s[f - 1].principal = 0 /\ s[f - 1].interest > 0
        /\ s[f + 1].principal = 0

\* C7: equal-principal with extraPayment = 0, valid input: each entry's
\* payment is at most the payment of the entry before it.
C7_EqualPrincipalPaymentsFall ==
  (Returned /\ IsValid(params) /\ params.method = METHODS.EQUAL_PRINCIPAL
     /\ params.extraPayment = 0) =>
    LET s == calculation.schedule
    IN \A i \in 2..Len(s) : s[i].payment <= s[i - 1].payment

\* An equal-principal schedule without extra payment, at a positive rate, of
\* at least three entries, whose payments fall strictly.
C7_Witness ==
  /\ Returned /\ IsValid(params) /\ params.method = METHODS.EQUAL_PRINCIPAL
  /\ params.extraPayment = 0 /\ params.annualRate > 0
  /\ LET s == calculation.schedule
     IN Len(s) > 2 /\ s[2].payment < s[1].payment
          /\ s[Len(s)].payment < s[2].payment

\* C8: amortized at annualRate = 0, valid input: every entry has interest 0
\* and payment equal to its principal portion.
C8_ZeroRateNoInterest ==
  (Returned /\ IsValid(params) /\ params.method = METHODS.AMORTIZED
     /\ params.annualRate = 0) =>
    LET s == calculation.schedule
    IN \A i \in 1..Len(s) :
         s[i].interest = 0 /\ s[i].payment = s[i].principal

\* An amortized schedule at rate 0 with an extra payment, of several entries,
\* whose last payment is cut down to the balance that was left.
C8_Witness ==
  /\ Returned /\ IsValid(params) /\ params.method = METHODS.AMORTIZED
  /\ params.annualRate = 0 /\ params.extraPayment > 0
  /\ LET s == calculation.schedule
     IN Len(s) > 1 /\ s[Len(s)].payment < s[1].payment

\* C9: amortized, principal 100000, annualRate 5, one year, monthly,
\* extraPayment 5000: payoff completes in 8 periods, the schedule length is
\* 8, the first seven payments are basePayment + 5000, and the principal
\* portion of the last period is the whole balance that was left.
C9_ExtraScenarioPaidInEight ==
  (Returned /\ params = ExtraScenario) =>
    LET s == calculation.schedule
        n == 8
    IN /\ Len(s) = n
       /\ calculation.summary.payoffLabel = ToString(n) \o "geyue"
       /\ \A i \in 1..(n - 1) :
            /\ s[i].payment =
                 calculation.summary.paymentInfo.basePayment + 5000 * Q
            /\ s[i].balance > Epsilon
       /\ s[n].principal = s[n - 1].balance
       /\ s[n].payment < s[n - 1].payment
       /\ s[n].balance = 0

\* The scenario's call returned.
C9_Witness ==
  /\ Returned /\ params = ExtraScenario
  /\ Len(calculation.schedule) > 0
  /\ calculation.summary.paymentInfo.extraPayment = 5000 * Q

\* C9 as stated: the scenario is paid off in 1 period, whose principal
\* portion is the full balance, and the schedule length is 1.
C9_ExtraScenarioPaidInOne ==
  (Returned /\ params = ExtraScenario) =>
    LET s == calculation.schedule
    IN Len(s) = 1 /\ s[1].principal = params.principal

\* C11: for every valid input and each method the schedule has at most
\* totalPeriods entries, and the loop ends on a balance <= 0.01, never on the
\* iteration cap.
C11_PaidOffByLastPeriod ==
  (Returned /\ IsValid(params)) =>
    /\ Len(calculation.schedule)
         <= TotalPeriods(params.years, params.paymentsPerYear)
    /\ LastBalance(calculation.schedule) <= Epsilon
    /\ ~CappedUnpaid

----------------------------------------------------------------------------
(* Properties of formatPayoffTime *)

\* The unit of the remainder part for a frequency.
RemainderUnit(paymentsPerYear) ==
  CASE paymentsPerYear = 12 -> "geyue"
    [] paymentsPerYear = 26 -> "geliangzhouqi"
    [] paymentsPerYear = 52 -> "zhou"

\* C10: for a period count >= 0 and paymentsPerYear in {12, 26, 52} the label
\* is the years part "N nian", N = periods div paymentsPerYear, present
\* exactly when N > 0, followed by the remainder part, periods mod
\* paymentsPerYear with the frequency's unit, present exactly when the
\* remainder is > 0; 52 periods at 52 per year give "1nian" alone, and 0
\* periods, and only 0 periods, give the less-than-one-period label.
C10_PayoffLabel ==
  pc = "formatted" =>
    LET n == fmtIn.periods \div fmtIn.paymentsPerYear
        r == fmtIn.periods % fmtIn.paymentsPerYear
        yearsPart == IF n > 0 THEN ToString(n) \o "nian" ELSE ""
        remainderPart ==
          IF r > 0 THEN ToString(r) \o RemainderUnit(fmtIn.paymentsPerYear)
          ELSE ""
    IN /\ fmtIn.periods > 0 => fmtOut = yearsPart \o remainderPart
       /\ fmtIn.periods > 0 => fmtOut # "buzuyigezhouqi"
       /\ fmtIn.periods = 0 => fmtOut = "buzuyigezhouqi"
       /\ (fmtIn.periods = 52 /\ fmtIn.paymentsPerYear = 52) =>
            fmtOut = "1nian"

\* formatPayoffTime returned the label of 30 biweekly periods: one year and
\* four periods.
C10_Witness ==
  /\ pc = "formatted"
  /\ fmtIn.periods = 30 /\ fmtIn.paymentsPerYear = 26
  /\ fmtOut = "1nian4geliangzhouqi"

----------------------------------------------------------------------------
(* Properties of the page *)

\* The cache is empty or holds what the last call of calculateLoan returned.
CacheIsLastResult ==
  pc = "page" =>
    \/ lastSchedule = <<>> /\ lastSummary = NoSummary
    \/ lastSchedule = calculation.schedule /\ lastSummary = calculation.summary

\* What one handled event does to the cache, the panels and the download.
CacheStep ==
  /\ event'.type = "reset" =>
       lastSchedule' = <<>> /\ lastSummary' = NoSummary
  /\ event'.type = "submit" =>
       LET p == ParseForm(event'.form)
       IN IF ValidateInputs(p) # {}
          THEN /\ page'.resultsHidden /\ page'.scheduleHidden
               /\ UNCHANGED <<lastSchedule, lastSummary>>
          ELSE /\ lastSchedule' = CalculateLoanResult(p).schedule
               /\ lastSummary' = CalculateLoanResult(p).summary
  /\ event'.type \in {"toggle", "download"} =>
       UNCHANGED <<lastSchedule, lastSummary>>
  /\ (event'.type = "download" /\ lastSchedule = <<>>) => download' = NoFile
  /\ download' # NoFile =>
       /\ event'.type = "download"
       /\ download'.rows = CsvRows(lastSchedule)

\* C12: after any sequence of submit, toggle, download and reset events the
\* cached lastSchedule is empty or the schedule of the most recent submit
\* that passed validation since the last reset: reset empties it, a submit
\* that fails validation hides both panels and leaves lastSchedule and
\* lastSummary unchanged, toggle and download never change it, and download
\* produces no file when it is empty.
C12_CacheFollowsEvents == [](CacheIsLastResult) /\ [][CacheStep]_vars

\* A submit that failed validation has hidden the panels while the schedule
\* of an earlier submit is still cached.
C12_Witness ==
  /\ pc = "page"
  /\ event.type = "submit" /\ ValidateInputs(ParseForm(event.form)) # {}
  /\ page.resultsHidden /\ page.scheduleHidden /\ page.errors # {}
  /\ Len(lastSchedule) > 1
  /\ lastSchedule = calculation.schedule

====
